---------------------------- MODULE Spec2Model ----------------------------
(***************************************************************************)
(* Code-intelligence graph engine of backend/app/dev_chat.py:              *)
(* CodeParser, CodeWatcher and DevChatInterpreter.                         *)
(*                                                                         *)
(* Strings are sequences of tokens.  Every token stands for one character  *)
(* of a name, except the atomic tokens ".py", "__init__", ":class:" and    *)
(* ":function:".  str.endswith / str.startswith / str.replace / str.split  *)
(* are the usual sequence operations on these token strings.               *)
(***************************************************************************)
EXTENDS Naturals, Sequences, FiniteSets

VARIABLES
    file_info,    \* self.file_info: insertion-ordered dict, <<[key, info], ...>>
    nodes,        \* self.code_graph: the node set of the DiGraph
    edges,        \* self.code_graph: the edges in insertion order, one per (source, target)
    vec,          \* self.code_collection: the ids held by the vector store
    observer,     \* self.observer: "None", "new" (an Observer not yet started),
                  \* "running", or "dead" (an Observer whose thread an
                  \* exception of a handler has ended)
    pc,           \* "idle", or "scanning" while scan_project runs
    python_files, \* scan_project: the files found by os.walk and not yet added
    last,         \* the handler or scan that ran last, the path it was given, and
                  \* what it found: fresh (the path was not indexed), vec_ids (the
                  \* vector ids the path owned), dependents (the dependents it
                  \* had), raised (it ended with an exception)
    events,       \* the number of watcher events and rescan requests so far
    task,         \* per thread, the operation it is in the middle of
    seen,         \* what the last query of a request thread was answered
    disk,         \* the paths of the .py files that exist under project_root
    orphans       \* the Observers that run and that self.observer no longer holds

vars == <<file_info, nodes, edges, vec, observer, pc, python_files, last, events,
          task, seen, disk, orphans>>

-----------------------------------------------------------------------------
(* Strings *)

EndsWith(s, suffix) ==
    /\ Len(suffix) <= Len(s)
    /\ SubSeq(s, Len(s) - Len(suffix) + 1, Len(s)) = suffix

StartsWith(s, prefix) ==
    /\ Len(prefix) <= Len(s)
    /\ SubSeq(s, 1, Len(prefix)) = prefix

Contains(s, tok) == \E i \in 1..Len(s) : s[i] = tok

\* imported_module.replace('.', '/')
ReplaceDots(s) == [i \in 1..Len(s) |-> IF s[i] = "." THEN "/" ELSE s[i]]

\* called_function.split('.')[0]
RECURSIVE FirstPart(_)
FirstPart(s) ==
    IF s = <<>> \/ Head(s) = "." THEN <<>> ELSE <<Head(s)>> \o FirstPart(Tail(s))

Range(s) == {s[i] : i \in 1..Len(s)}

-----------------------------------------------------------------------------
(* The watched project: paths relative to project_root, and the source     *)
(* texts a file can hold, given by what ast.parse finds in them.           *)

PathA  == <<"a", ".py">>
PathB  == <<"b", ".py">>
PathXA == <<"x", "/", "a", ".py">>

\* os.walk is top-down: x/a.py is listed after the files of the root.
Paths == {PathA, PathB, PathXA}

ModA == <<"a">>
ModB == <<"b">>
NameH == <<"h">>
NameK == <<"K">>
CallKm == <<"K", ".", "m">>

\* node.module of "from . import x" is None: the import that names no module
NoModule == <<>>

Import(m) == [type |-> "import", name |-> m]
ImportFrom(m, n) == [type |-> "importfrom", module |-> m, name |-> n]

\* import b
SrcImportB ==
    [text |-> "import_b", syntax_ok |-> TRUE, imports |-> <<Import(ModB)>>,
     classdefs |-> <<>>, functiondefs |-> <<>>, calls |-> <<>>]
\* from a import h / h() / K.m()
SrcUseA ==
    [text |-> "use_a", syntax_ok |-> TRUE, imports |-> <<ImportFrom(ModA, NameH)>>,
     classdefs |-> <<>>, functiondefs |-> <<>>, calls |-> <<NameH, CallKm>>]
\* def h(): pass
SrcDefH ==
    [text |-> "def_h", syntax_ok |-> TRUE, imports |-> <<>>,
     classdefs |-> <<>>, functiondefs |-> <<NameH>>, calls |-> <<>>]
\* import a / class K: pass
SrcClassK ==
    [text |-> "class_k", syntax_ok |-> TRUE, imports |-> <<Import(ModA)>>,
     classdefs |-> <<NameK>>, functiondefs |-> <<>>, calls |-> <<>>]

\* from . import h / import a / K.m()
SrcRelative ==
    [text |-> "relative", syntax_ok |-> TRUE,
     imports |-> <<ImportFrom(NoModule, NameH), Import(ModA)>>,
     classdefs |-> <<>>, functiondefs |-> <<>>, calls |-> <<CallKm>>]

\* import b / class K(: a text that ast.parse rejects
SrcBroken ==
    [text |-> "broken", syntax_ok |-> FALSE, imports |-> <<Import(ModB)>>,
     classdefs |-> <<NameK>>, functiondefs |-> <<>>, calls |-> <<>>]

Sources == {SrcImportB, SrcUseA, SrcDefH, SrcClassK, SrcRelative, SrcBroken}

\* The texts each file of the project takes
SourcesOf(p) ==
    IF p = PathA THEN {SrcImportB, SrcDefH, SrcClassK, SrcBroken}
    ELSE IF p = PathB THEN {SrcUseA, SrcImportB, SrcRelative}
    ELSE {SrcImportB, SrcClassK, SrcDefH}

-----------------------------------------------------------------------------
(* CodeParser *)

\* _extract_functions: node.parent is read on the first FunctionDef that
\* ast.walk yields; ast nodes carry no parent attribute.
ExtractFunctions(src) ==
    IF src.functiondefs # <<>>
    THEN [raised |-> TRUE, functions |-> <<>>]
    ELSE [raised |-> FALSE, functions |-> <<>>]

\* 'error': str(e), by the exception caught at line 63; no error key otherwise
NoError == ""
SyntaxErrorText == "invalid syntax"
AttributeErrorText == "'FunctionDef' object has no attribute 'parent'"

Failed(info) == info.error # NoError

\* Variant: the try of parse_file covers only the read and ast.parse
ParseFileLateError(file_path, src) ==
    IF ~src.syntax_ok
    THEN [path |-> file_path, error |-> SyntaxErrorText]
    ELSE [path |-> file_path,
          error |-> IF ExtractFunctions(src).raised THEN AttributeErrorText ELSE NoError,
          imports |-> src.imports,
          classes |-> src.classdefs,
          functions |-> ExtractFunctions(src).functions,
          function_calls |-> src.calls,
          content |-> src.text]

ParseFile(file_path, src) ==
    IF ~src.syntax_ok
    THEN [path |-> file_path, error |-> SyntaxErrorText]
    ELSE IF ExtractFunctions(src).raised
    THEN [path |-> file_path, error |-> AttributeErrorText]
    ELSE [path |-> file_path, error |-> NoError,
          imports |-> src.imports,
          classes |-> src.classdefs,
          functions |-> ExtractFunctions(src).functions,
          function_calls |-> src.calls,
          content |-> src.text]

\* file_info.get(field, [])
GetList(info, field) == IF Failed(info) THEN <<>> ELSE info[field]

-----------------------------------------------------------------------------
(* self.file_info, an insertion-ordered dict *)

Keys(fi) == [i \in 1..Len(fi) |-> fi[i].key]

HasKey(fi, k) == \E i \in 1..Len(fi) : fi[i].key = k

\* self.file_info.get(k); only used where k is a key
Lookup(fi, k) == fi[CHOOSE i \in 1..Len(fi) : fi[i].key = k].info

\* self.file_info[k] = info: a present key keeps its position, a new key goes last
DictSet(fi, k, info) ==
    IF HasKey(fi, k)
    THEN [i \in 1..Len(fi) |-> IF fi[i].key = k THEN [key |-> k, info |-> info] ELSE fi[i]]
    ELSE Append(fi, [key |-> k, info |-> info])

\* del self.file_info[k]
DictDel(fi, k) == SelectSeq(fi, LAMBDA e : e.key # k)

-----------------------------------------------------------------------------
(* self.code_graph, a networkx DiGraph: g = [nodes, edges] *)

\* Variant: the identity of a class is the path of its file
ClassIdIsFile(file, name) == file

ClassId(file, name) == file \o <<":class:">> \o name
FunctionId(file, name) == file \o <<":function:">> \o name

HasEdge(es, u, v) == \E i \in 1..Len(es) : es[i].source = u /\ es[i].target = v

\* DiGraph.add_edge(u, v, type=t): adds missing endpoints; an edge already
\* present keeps its place and takes the new attribute
AddEdge(g, u, v, t) ==
    [nodes |-> g.nodes \cup {u, v},
     edges |-> IF HasEdge(g.edges, u, v)
               THEN [i \in 1..Len(g.edges) |->
                        IF g.edges[i].source = u /\ g.edges[i].target = v
                        THEN [source |-> u, target |-> v, type |-> t]
                        ELSE g.edges[i]]
               ELSE Append(g.edges, [source |-> u, target |-> v, type |-> t])]

\* DiGraph.remove_node(n): the node and every edge incident to it
RemoveNode(g, n) ==
    [nodes |-> g.nodes \ {n},
     edges |-> SelectSeq(g.edges, LAMBDA e : e.source # n /\ e.target # n)]

\* DiGraph.in_edges(n, data=True), DiGraph.out_edges(n, data=True)
InEdges(es, n) == SelectSeq(es, LAMBDA e : e.target = n)
OutEdges(es, n) == SelectSeq(es, LAMBDA e : e.source = n)

EdgeSet(es) == Range(es)

-----------------------------------------------------------------------------
(* DevChatInterpreter._add_import_edge and _build_relationships *)

Variations(imported_module) ==
    LET module_path == ReplaceDots(imported_module)
    IN  << module_path \o <<".py">>, module_path \o <<"/", "__init__", ".py">> >>

\* The keys of file_info that end with var, in dict order
Candidates(fi, var) == SelectSeq(Keys(fi), LAMBDA k : EndsWith(k, var))

\* for other_file in self.file_info.keys(): if other_file.endswith(var): ... return
FirstMatch(fi, var) == Head(Candidates(fi, var))

AddImportEdge(g, fi, file_path, imported_module) ==
    LET vs == Variations(imported_module)
    IN  IF Candidates(fi, vs[1]) # <<>>
        THEN AddEdge(g, file_path, FirstMatch(fi, vs[1]), "imports")
        ELSE IF Candidates(fi, vs[2]) # <<>>
        THEN AddEdge(g, file_path, FirstMatch(fi, vs[2]), "imports")
        ELSE g

ImportedModule(imp) == IF imp.type = "import" THEN imp.name ELSE imp.module

\* for imp in imports
RECURSIVE FileImportEdges(_, _, _, _)
FileImportEdges(g, fi, file_path, imports) ==
    IF imports = <<>> THEN g
    ELSE FileImportEdges(AddImportEdge(g, fi, file_path, ImportedModule(Head(imports))),
                         fi, file_path, Tail(imports))

\* for file_path, file_info in self.file_info.items()  (lines 480-492)
RECURSIVE ImportEdges(_, _, _)
ImportEdges(g, fi, rest) ==
    IF rest = <<>> THEN g
    ELSE ImportEdges(FileImportEdges(g, fi, Head(rest).key, GetList(Head(rest).info, "imports")),
                     fi, Tail(rest))

\* The ids of the declarations named name, over all files in dict order
RECURSIVE Declared(_, _, _, _)
Declared(rest, field, name, kind) ==
    IF rest = <<>> THEN <<>>
    ELSE LET other == Head(rest)
             hits == SelectSeq(GetList(other.info, field), LAMBDA d : d = name)
         IN  [i \in 1..Len(hits) |->
                 IF kind = "class" THEN ClassId(other.key, hits[i])
                 ELSE FunctionId(other.key, hits[i])]
             \o Declared(Tail(rest), field, name, kind)

RECURSIVE AddCallEdges(_, _, _)
AddCallEdges(g, file_path, targets) ==
    IF targets = <<>> THEN g
    ELSE AddCallEdges(AddEdge(g, file_path, Head(targets), "calls"), file_path, Tail(targets))

\* One call of a file (lines 498-530)
CallTargets(fi, called_function) ==
    IF Contains(called_function, ".")
    THEN Declared(fi, "classes", FirstPart(called_function), "class")
    ELSE Declared(fi, "functions", called_function, "function")

\* for call in function_calls
RECURSIVE FileCallEdges(_, _, _, _)
FileCallEdges(g, fi, file_path, calls) ==
    IF calls = <<>> THEN g
    ELSE FileCallEdges(AddCallEdges(g, file_path, CallTargets(fi, Head(calls))),
                       fi, file_path, Tail(calls))

\* for file_path, file_info in self.file_info.items()  (lines 495-530)
RECURSIVE CallEdges(_, _, _)
CallEdges(g, fi, rest) ==
    IF rest = <<>> THEN g
    ELSE CallEdges(FileCallEdges(g, fi, Head(rest).key, GetList(Head(rest).info, "function_calls")),
                   fi, Tail(rest))

\* remove_edges_from(edges_to_remove): every edge goes, every node stays
ClearEdges(g) == [nodes |-> g.nodes, edges |-> <<>>]

\* imported_module.replace('.', '/') on None raises AttributeError (line 535)
ImportRaises(imp) == ImportedModule(imp) = NoModule

FileRaises(info) ==
    \E i \in 1..Len(GetList(info, "imports")) : ImportRaises(GetList(info, "imports")[i])

\* _build_relationships raises: nothing catches the error of line 535
BuildRaises(fi) == \E i \in 1..Len(fi) : FileRaises(fi[i].info)

\* The imports of a file that the loop of line 483 reaches
RECURSIVE ImportsReached(_)
ImportsReached(imports) ==
    IF imports = <<>> \/ ImportRaises(Head(imports)) THEN <<>>
    ELSE <<Head(imports)>> \o ImportsReached(Tail(imports))

\* The files and imports that the loop of line 480 reaches before it raises
RECURSIVE FilesReached(_)
FilesReached(rest) ==
    IF rest = <<>> THEN <<>>
    ELSE IF FileRaises(Head(rest).info)
    THEN << [key  |-> Head(rest).key,
             info |-> [Head(rest).info EXCEPT
                          !.imports = ImportsReached(Head(rest).info.imports)]] >>
    ELSE <<Head(rest)>> \o FilesReached(Tail(rest))

\* Variant: edges_to_remove is removed after the edges are built
BuildRelationshipsClearLast(g, fi) ==
    LET built == CallEdges(ImportEdges(g, fi, fi), fi, fi)
    IN  [nodes |-> built.nodes,
         edges |-> SelectSeq(built.edges, LAMBDA e : ~HasEdge(g.edges, e.source, e.target))]

\* The graph that _build_relationships leaves: when it raises, the edges of
\* the imports reached so far and no calls edge
BuildRelationships(g, fi) ==
    IF BuildRaises(fi)
    THEN ImportEdges(ClearEdges(g), fi, FilesReached(fi))
    ELSE CallEdges(ImportEdges(ClearEdges(g), fi, fi), fi, fi)

-----------------------------------------------------------------------------
(* self.code_collection: the vector store, reached through the embedding   *)
(* provider on add and query                                               *)

\* The add call of one file that the provider fails, 0 for none
MaxFailAt == 2

FailPoints == 0..MaxFailAt

\* ids of the add calls of _add_to_vector_db, in call order (lines 429-468)
VectorIds(rel_path, info) ==
    IF Failed(info) \/ info.content = ""
    THEN <<>>
    ELSE <<rel_path>>
         \o [i \in 1..Len(info.classes) |-> ClassId(rel_path, info.classes[i])]
         \o [i \in 1..Len(info.functions) |-> FunctionId(rel_path, info.functions[i])]

\* The add calls from the i-th on.  A failing call raises into the except
\* clause of line 470 and ends the method.  dup_raises: whether the store
\* raises on an id it already holds or keeps the old entry and goes on.
RECURSIVE VectorAdd(_, _, _, _, _)
VectorAdd(v, ids, i, fail_at, dup_raises) ==
    IF i > Len(ids) THEN v
    ELSE IF i = fail_at THEN v
    ELSE IF ids[i] \in v
         THEN IF dup_raises THEN v ELSE VectorAdd(v, ids, i + 1, fail_at, dup_raises)
    ELSE VectorAdd(v \cup {ids[i]}, ids, i + 1, fail_at, dup_raises)

AddToVectorDb(v, rel_path, info, fail_at, dup_raises) ==
    VectorAdd(v, VectorIds(rel_path, info), 1, fail_at, dup_raises)

ColonTokens == {":", ":class:", ":function:"}

\* id.startswith(f"{rel_path}:")
OwnedBy(id, rel_path) ==
    /\ StartsWith(id, rel_path)
    /\ Len(id) > Len(rel_path)
    /\ id[Len(rel_path) + 1] \in ColonTokens

\* Variant: only the file's own entry is deleted
RemoveFromVectorDbFileOnly(v, rel_path) == v \ {rel_path}

\* lines 363-369: delete and get of the in-process collection call no provider
RemoveFromVectorDb(v, rel_path) ==
    {id \in v \ {rel_path} : ~OwnedBy(id, rel_path)}

-----------------------------------------------------------------------------
(* add_file, remove_file, update_file on st = [file_info, nodes, edges, vec] *)

\* Variant: add_file adds no node to the graph
AddFileNoNode(st, rel_path, src, fail_at, dup_raises) ==
    LET info == ParseFile(rel_path, src)
    IN  [file_info |-> DictSet(st.file_info, rel_path, info),
         nodes     |-> st.nodes,
         edges     |-> st.edges,
         vec       |-> AddToVectorDb(st.vec, rel_path, info, fail_at, dup_raises)]

\* Variant: add_file leaves the vector store alone
AddFileNoUpsert(st, rel_path, src, fail_at, dup_raises) ==
    LET info == ParseFile(rel_path, src)
    IN  [file_info |-> DictSet(st.file_info, rel_path, info),
         nodes     |-> st.nodes \cup {rel_path},
         edges     |-> st.edges,
         vec       |-> st.vec]

AddFile(st, rel_path, src, fail_at, dup_raises) ==
    LET info == ParseFile(rel_path, src)
    IN  [file_info |-> DictSet(st.file_info, rel_path, info),
         nodes     |-> st.nodes \cup {rel_path},
         edges     |-> st.edges,
         vec       |-> AddToVectorDb(st.vec, rel_path, info, fail_at, dup_raises)]

\* Variant: the file's node stays in the graph
RemoveFileKeepNode(st, rel_path) ==
    [file_info |-> DictDel(st.file_info, rel_path),
     nodes     |-> st.nodes,
     edges     |-> st.edges,
     vec       |-> RemoveFromVectorDb(st.vec, rel_path)]

RemoveFile(st, rel_path) ==
    LET g == IF rel_path \in st.nodes
             THEN RemoveNode([nodes |-> st.nodes, edges |-> st.edges], rel_path)
             ELSE [nodes |-> st.nodes, edges |-> st.edges]
    IN  [file_info |-> DictDel(st.file_info, rel_path),
         nodes     |-> g.nodes,
         edges     |-> g.edges,
         vec       |-> RemoveFromVectorDb(st.vec, rel_path)]

Rebuild(st) ==
    LET g == BuildRelationships([nodes |-> st.nodes, edges |-> st.edges], st.file_info)
    IN  [st EXCEPT !.nodes = g.nodes, !.edges = g.edges]

\* Variant: update_file adds without removing first
UpdateFileNoRemove(st, rel_path, src, fail_at, dup_raises) ==
    Rebuild(AddFile(st, rel_path, src, fail_at, dup_raises))

UpdateFile(st, rel_path, src, fail_at, dup_raises) ==
    Rebuild(AddFile(RemoveFile(st, rel_path), rel_path, src, fail_at, dup_raises))

Engine == [file_info |-> file_info, nodes |-> nodes, edges |-> edges, vec |-> vec]

\* self.code_graph of st
GraphOf(st) == [nodes |-> st.nodes, edges |-> st.edges]

Install(st) ==
    /\ file_info' = st.file_info
    /\ nodes' = st.nodes
    /\ edges' = st.edges
    /\ vec' = st.vec

-----------------------------------------------------------------------------
(* The query operations, on st = [file_info, nodes, edges, vec] *)

\* get_file_info: None for an unknown path
GetFileInfo(st, file_path) ==
    IF HasKey(st.file_info, file_path)
    THEN [found |-> TRUE, info |-> Lookup(st.file_info, file_path)]
    ELSE [found |-> FALSE]

\* Variant: the kind of the edge is not looked at
GetDependenciesAnyKind(st, file_path) ==
    IF file_path \notin st.nodes THEN <<>>
    ELSE LET out == OutEdges(st.edges, file_path)
         IN  [i \in 1..Len(out) |-> [type |-> "imports", target |-> out[i].target]]

GetDependencies(st, file_path) ==
    IF file_path \notin st.nodes THEN <<>>
    ELSE LET out == SelectSeq(OutEdges(st.edges, file_path), LAMBDA e : e.type = "imports")
         IN  [i \in 1..Len(out) |-> [type |-> "imports", target |-> out[i].target]]

GetDependents(st, file_path) ==
    IF file_path \notin st.nodes THEN <<>>
    ELSE LET in == SelectSeq(InEdges(st.edges, file_path), LAMBDA e : e.type = "imports")
         IN  [i \in 1..Len(in) |-> [type |-> "imported_by", source |-> in[i].source]]

\* node.endswith(f":{function_name}")
EndsWithColonName(id, name) ==
    /\ EndsWith(id, name)
    /\ Len(id) > Len(name)
    /\ id[Len(id) - Len(name)] \in ColonTokens

\* for node in self.code_graph.nodes(): some order of the node set
RECURSIVE NodeList(_)
NodeList(ns) ==
    IF ns = {} THEN <<>>
    ELSE LET n == CHOOSE n \in ns : TRUE IN <<n>> \o NodeList(ns \ {n})

RECURSIVE CallersOver(_, _, _)
CallersOver(st, node_list, function_name) ==
    IF node_list = <<>> THEN <<>>
    ELSE LET node == Head(node_list)
             in == IF Contains(node, ":function:") /\ EndsWithColonName(node, function_name)
                   THEN SelectSeq(InEdges(st.edges, node), LAMBDA e : e.type = "calls")
                   ELSE <<>>
         IN  [i \in 1..Len(in) |-> [type |-> "called_by", source |-> in[i].source]]
             \o CallersOver(st, Tail(node_list), function_name)

GetFunctionCalls(st, function_name) ==
    CallersOver(st, NodeList(st.nodes), function_name)

\* visit_dependents (lines 710-721) on acc = [visited, transitive];
\* VisitEach is its for loop from the i-th dependent on
RECURSIVE VisitDependents(_, _, _), VisitEach(_, _, _, _, _)
RECURSIVE VisitEachFirstOnly(_, _, _, _, _)
RECURSIVE VisitEachForgetful(_, _, _, _, _)
RECURSIVE VisitEachViaSelf(_, _, _, _, _)
\* Variant: the loop ends after the first dependent it visits
VisitEachFirstOnly(st, path, deps, i, acc) ==
    IF i > Len(deps) THEN acc
    ELSE LET dep_path == deps[i].source
         IN  IF dep_path \in acc.visited
             THEN VisitEachFirstOnly(st, path, deps, i + 1, acc)
             ELSE VisitDependents(st, dep_path,
                    [visited    |-> acc.visited \cup {dep_path},
                     transitive |-> Append(acc.transitive,
                                      [type |-> "transitively_imported_by",
                                       source |-> dep_path, via |-> path]),
                     calls      |-> acc.calls])

\* Variant: the entry names the analysed path's dependent itself as via
VisitEachViaSelf(st, path, deps, i, acc) ==
    IF i > Len(deps) THEN acc
    ELSE LET dep_path == deps[i].source
         IN  IF dep_path \in acc.visited
             THEN VisitEachViaSelf(st, path, deps, i + 1, acc)
             ELSE VisitEachViaSelf(st, path, deps, i + 1,
                    VisitDependents(st, dep_path,
                      [visited    |-> acc.visited \cup {dep_path},
                       transitive |-> Append(acc.transitive,
                                        [type |-> "transitively_imported_by",
                                         source |-> dep_path, via |-> dep_path]),
                       calls      |-> acc.calls]))

\* Variant: what a recursive call has visited is forgotten when it returns
VisitEachForgetful(st, path, deps, i, acc) ==
    IF i > Len(deps) THEN acc
    ELSE LET dep_path == deps[i].source
         IN  IF dep_path \in acc.visited
             THEN VisitEachForgetful(st, path, deps, i + 1, acc)
             ELSE VisitEachForgetful(st, path, deps, i + 1,
                    [VisitDependents(st, dep_path,
                       [visited    |-> acc.visited \cup {dep_path},
                        transitive |-> Append(acc.transitive,
                                         [type |-> "transitively_imported_by",
                                          source |-> dep_path, via |-> path]),
                        calls      |-> acc.calls])
                     EXCEPT !.visited = acc.visited \cup {dep_path}])

\* def visit_dependents(path); calls counts the calls made so far
VisitDependents(st, path, acc) ==
    VisitEach(st, path, GetDependents(st, path), 1, [acc EXCEPT !.calls = @ + 1])
VisitEach(st, path, deps, i, acc) ==
    IF i > Len(deps) THEN acc
    ELSE LET dep_path == deps[i].source
         IN  IF dep_path \in acc.visited
             THEN VisitEach(st, path, deps, i + 1, acc)
             ELSE VisitEach(st, path, deps, i + 1,
                    VisitDependents(st, dep_path,
                      [visited    |-> acc.visited \cup {dep_path},
                       transitive |-> Append(acc.transitive,
                                        [type |-> "transitively_imported_by",
                                         source |-> dep_path, via |-> path]),
                       calls      |-> acc.calls]))

\* for dep in direct_dependents: visit_dependents(dep['source'])  (lines 723-724)
RECURSIVE VisitDirect(_, _, _, _)
VisitDirect(st, direct, i, acc) ==
    IF i > Len(direct) THEN acc
    ELSE VisitDirect(st, direct, i + 1, VisitDependents(st, direct[i].source, acc))

\* Variant: the visited set starts empty
GetImpactAnalysisEmptyVisited(st, file_path) ==
    LET direct == GetDependents(st, file_path)
        acc    == VisitDirect(st, direct, 1,
                              [visited |-> {}, transitive |-> <<>>, calls |-> 0])
        info   == GetFileInfo(st, file_path)
    IN  [file |-> file_path,
         direct_dependents     |-> direct,
         transitive_dependents |-> acc.transitive,
         functions |-> IF info.found THEN GetList(info.info, "functions") ELSE <<>>,
         classes   |-> IF info.found THEN GetList(info.info, "classes") ELSE <<>>,
         total_impact_count |-> Len(direct) + Len(acc.transitive)]

\* The traversal of lines 703-724: the visited set, the transitive list and
\* the number of calls of visit_dependents
Traverse(st, file_path) ==
    VisitDirect(st, GetDependents(st, file_path), 1,
                [visited |-> {file_path}, transitive |-> <<>>, calls |-> 0])

GetImpactAnalysis(st, file_path) ==
    LET direct == GetDependents(st, file_path)
        acc    == Traverse(st, file_path)
        info   == GetFileInfo(st, file_path)
    IN  [file |-> file_path,
         direct_dependents     |-> direct,
         transitive_dependents |-> acc.transitive,
         functions |-> IF info.found THEN GetList(info.info, "functions") ELSE <<>>,
         classes   |-> IF info.found THEN GetList(info.info, "classes") ELSE <<>>,
         total_impact_count |-> Len(direct) + Len(acc.transitive)]

GetSystemStats(st) ==
    [files        |-> Len(st.file_info),
     nodes        |-> Cardinality(st.nodes),
     edges        |-> Len(st.edges),
     vector_items |-> Cardinality(st.vec)]

\* node.split(':')[-1]: what follows the last colon of a class or function id
RECURSIVE AfterColon(_)
AfterColon(node) ==
    IF \E i \in 1..Len(node) : node[i] \in ColonTokens
    THEN AfterColon(Tail(node))
    ELSE node

\* generate_code_map without output_file: the nodes and the links
GenerateCodeMap(st) ==
    [nodes |-> {[id   |-> n,
                 type |-> IF Contains(n, ":class:") THEN "class"
                          ELSE IF Contains(n, ":function:") THEN "function"
                          ELSE "file",
                 name |-> AfterColon(n)] : n \in st.nodes},
     links |-> st.edges]

\* The texts in which one of db_patterns (lines 756-772) is found
DbTexts == {}

\* get_database_interactions: the functions of the matching files (the
\* methods of their classes are not part of the records of this model)
RECURSIVE GetDatabaseInteractions(_)
GetDatabaseInteractions(fi) ==
    IF fi = <<>> THEN <<>>
    ELSE LET e == Head(fi)
             funcs == IF ~Failed(e.info) /\ e.info.content \in DbTexts
                      THEN e.info.functions ELSE <<>>
         IN  [i \in 1..Len(funcs) |-> [file |-> e.key, function |-> funcs[i]]]
             \o GetDatabaseInteractions(Tail(fi))

\* search_code: the ids the store returns, empty when the query raises
NResults == 5

\* The ids that code_collection.query returns when it raises nothing
QueryResults(v) ==
    {r \in SUBSET v : Cardinality(r) = IF Cardinality(v) < NResults
                                      THEN Cardinality(v) ELSE NResults}

\* Variant: the results are returned although the query raised
SearchCodeIgnoresError(v, raised, r) == r

\* search_code: raised is whether the provider or the store raises in the
\* try of lines 667-687, r what the store returns otherwise
SearchCode(v, raised, r) == IF raised THEN {} ELSE r

SearchOutcomes(v) ==
    {SearchCode(v, raised, r) : raised \in BOOLEAN, r \in QueryResults(v)}

-----------------------------------------------------------------------------
(* process_query: a query is a token string *)

NonWordTokens == {" ", "/", ".", ".py", "(", "?", ":", ":class:", ":function:"}

IsWord(tok) == tok \notin NonWordTokens

\* re.search(r'(\w+\.py)', query): the positions <<first, last>> of the
\* leftmost match, <<0, 0>> for none
FileMatch(q) ==
    LET ends == {j \in 2..Len(q) : q[j] = ".py" /\ IsWord(q[j - 1])}
    IN  IF ends = {} THEN <<0, 0>>
        ELSE LET j == CHOOSE j \in ends : \A k \in ends : j <= k
                 i == CHOOSE i \in 1..(j - 1) :
                        /\ \A k \in i..(j - 1) : IsWord(q[k])
                        /\ (i = 1 \/ ~IsWord(q[i - 1]))
             IN  <<i, j>>

\* re.search(r'(\w+)\(', query)
FuncMatch(q) ==
    LET ends == {j \in 2..Len(q) : q[j] = "(" /\ IsWord(q[j - 1])}
    IN  IF ends = {} THEN <<0, 0>>
        ELSE LET j == CHOOSE j \in ends : \A k \in ends : j <= k
                 i == CHOOSE i \in 1..(j - 1) :
                        /\ \A k \in i..(j - 1) : IsWord(q[k])
                        /\ (i = 1 \/ ~IsWord(q[i - 1]))
             IN  <<i, j - 1>>

HasKeyword(q, keywords) == \E i \in 1..Len(q) : q[i] \in keywords

SemanticSearch(q, search_results) ==
    [type |-> "semantic_search", query |-> q, results |-> search_results]

\* Variant: a file name that matches no key is analysed as it stands
ProcessQueryUnknownFile(st, q, search_results) ==
    IF HasKeyword(q, {"impact", "affect", "change"}) /\ Contains(q, ".py")
    THEN LET m == FileMatch(q)
             file_name == SubSeq(q, m[1], m[2])
             found == IF m = <<0, 0>> THEN <<>> ELSE Candidates(st.file_info, file_name)
             file == IF found # <<>> THEN Head(found) ELSE file_name
         IN  [type |-> "impact_analysis", query |-> q, file |-> file,
              impact |-> GetImpactAnalysis(st, file)]
    ELSE SemanticSearch(q, search_results)

\* Variant: the function-caller branch is tried before the database branch
ProcessQueryCallersFirst(st, q, search_results) ==
    IF HasKeyword(q, {"impact", "affect", "change"}) /\ Contains(q, ".py")
    THEN LET m == FileMatch(q)
             file_name == SubSeq(q, m[1], m[2])
             found == IF m = <<0, 0>> THEN <<>> ELSE Candidates(st.file_info, file_name)
         IN  IF found # <<>>
             THEN [type |-> "impact_analysis", query |-> q, file |-> Head(found),
                   impact |-> GetImpactAnalysis(st, Head(found))]
             ELSE SemanticSearch(q, search_results)
    ELSE IF HasKeyword(q, {"function", "call", "method"}) /\ FuncMatch(q) # <<0, 0>>
    THEN LET m == FuncMatch(q)
             function_name == SubSeq(q, m[1], m[2])
         IN  [type |-> "function_calls", query |-> q, function |-> function_name,
              callers |-> GetFunctionCalls(st, function_name)]
    ELSE IF HasKeyword(q, {"database", "db", "sql"})
    THEN [type |-> "database_interactions", query |-> q,
          functions |-> GetDatabaseInteractions(st.file_info)]
    ELSE SemanticSearch(q, search_results)

\* search_results: what search_code returns if the query falls through to it
ProcessQuery(st, q, search_results) ==
    IF HasKeyword(q, {"impact", "affect", "change"}) /\ Contains(q, ".py")
    THEN LET m == FileMatch(q)
             file_name == SubSeq(q, m[1], m[2])
             found == IF m = <<0, 0>> THEN <<>> ELSE Candidates(st.file_info, file_name)
         IN  IF found # <<>>
             THEN [type |-> "impact_analysis", query |-> q, file |-> Head(found),
                   impact |-> GetImpactAnalysis(st, Head(found))]
             ELSE SemanticSearch(q, search_results)
    ELSE IF HasKeyword(q, {"database", "db", "sql"})
    THEN [type |-> "database_interactions", query |-> q,
          functions |-> GetDatabaseInteractions(st.file_info)]
    ELSE IF HasKeyword(q, {"function", "call", "method"}) /\ FuncMatch(q) # <<0, 0>>
    THEN LET m == FuncMatch(q)
             function_name == SubSeq(q, m[1], m[2])
         IN  [type |-> "function_calls", query |-> q, function |-> function_name,
              callers |-> GetFunctionCalls(st, function_name)]
    ELSE SemanticSearch(q, search_results)

\* "what breaks if I change a.py?", "impact of c.py", "which sql?",
\* "who calls h(", "parsing"
QueryChangeA == <<"change", " ", "a", ".py", "?">>
QueryImpactC == <<"impact", " ", "c", ".py">>
QuerySql     == <<"sql", "?">>
QueryCallsH  == <<"call", " ", "h", "(">>
QueryOther   == <<"parsing">>
\* "change a.py sql", "change c.py sql", "sql call h("
QueryChangeASql == <<"change", " ", "a", ".py", " ", "sql">>
QueryChangeCSql == <<"change", " ", "c", ".py", " ", "sql">>
QuerySqlCallsH  == <<"sql", " ", "call", " ", "h", "(">>

Queries ==
    {QueryChangeA, QueryImpactC, QuerySql, QueryCallsH, QueryOther,
     QueryChangeASql, QueryChangeCSql, QuerySqlCallsH}

-----------------------------------------------------------------------------
(* CodeWatcher: the handlers run on the observer thread, one event at a time *)

NoPath == <<>>

\* The thread of the Observer, which runs the handlers, and two threads of
\* the web server, which run the routes
Requests == {"request1", "request2"}
Threads == {"watcher"} \cup Requests

Idle == [op |-> "idle", step |-> "idle"]

NotAsked == [kind |-> "none"]

\* The watcher events, rescan requests and scanned files of one run
MaxEvents == 4

Count ==
    /\ events < MaxEvents
    /\ events' = events + 1

\* The record of a completed handler, taken in the state it started from
Done(op, p) ==
    [op |-> op, path |-> p, raised |-> FALSE, is_directory |-> FALSE,
     fresh |-> ~HasKey(file_info, p),
     vec_ids |-> Cardinality(vec \ RemoveFromVectorDb(vec, p)),
     dependents |-> Len(GetDependents(Engine, p))]

\* A watchdog event for the file p
FileEvent(p) == [src_path |-> p, is_directory |-> FALSE]

\* Variant: the handlers test the name only
ForwardedByName(event) == EndsWith(event.src_path, <<".py">>)

\* if event.is_directory: return / if event.src_path.endswith('.py')
Forwarded(event) == ~event.is_directory /\ EndsWith(event.src_path, <<".py">>)

\* The record of a handler that has run for event
Handled(op, event) ==
    [Done(op, event.src_path) EXCEPT !.is_directory = event.is_directory]

OnCreated(event, src, fail_at, dup_raises) ==
    /\ observer = "running"
    /\ task["watcher"] = Idle
    /\ Count
    /\ IF Forwarded(event)
       THEN Install(AddFile(Engine, event.src_path, src, fail_at, dup_raises))
       ELSE UNCHANGED <<file_info, nodes, edges, vec>>
    /\ last' = Handled("created", event)
    /\ UNCHANGED <<disk, orphans, observer, pc, python_files, task, seen>>

\* No handler catches: the error of _build_relationships leaves update_file
\* and on_modified, and ends the thread that dispatches the events
OnModified(event, src, fail_at, dup_raises) ==
    /\ observer = "running"
    /\ task["watcher"] = Idle
    /\ Count
    /\ IF Forwarded(event)
       THEN /\ Install(UpdateFile(Engine, event.src_path, src, fail_at, dup_raises))
            /\ last' = [Handled("modified", event) EXCEPT !.raised = BuildRaises(file_info')]
            /\ observer' = IF BuildRaises(file_info') THEN "dead" ELSE observer
       ELSE /\ last' = Handled("modified", event)
            /\ UNCHANGED <<file_info, nodes, edges, vec, observer>>
    /\ UNCHANGED <<disk, orphans, pc, python_files, task, seen>>

OnDeleted(event) ==
    /\ observer = "running"
    /\ task["watcher"] = Idle
    /\ Count
    /\ IF Forwarded(event)
       THEN Install(RemoveFile(Engine, event.src_path))
       ELSE UNCHANGED <<file_info, nodes, edges, vec>>
    /\ last' = Handled("deleted", event)
    /\ UNCHANGED <<disk, orphans, observer, pc, python_files, task, seen>>

-----------------------------------------------------------------------------
(* rescan_project of dev_chat_routes.py: stop_watching, scan_project,      *)
(* start_watching                                                          *)

\* What os.walk can list: distinct paths, the root's files before x/a.py
Listings ==
    {l \in UNION {[1..n -> Paths] : n \in 0..Cardinality(Paths)} :
        /\ \A i, j \in 1..Len(l) : i # j => l[i] # l[j]
        /\ \A i \in 1..Len(l) : l[i] = PathXA => i = Len(l)}

\* stop_watching, and lines 294-298 of scan_project
RescanBegin(listing) ==
    /\ pc = "idle"
    /\ Count
    /\ observer' = "None"
    /\ pc' = "scanning"
    /\ python_files' = listing
    /\ last' = Done("scanning", NoPath)
    /\ UNCHANGED <<disk, orphans, file_info, nodes, edges, vec, task, seen>>

\* Variant: the loop rebuilds the edges after every file
ScanAddFileRebuilding(src, fail_at, dup_raises) ==
    /\ pc = "scanning"
    /\ python_files # <<>>
    /\ src \in SourcesOf(Head(python_files))
    /\ Count
    /\ Install(Rebuild(AddFile(Engine, Head(python_files), src, fail_at, dup_raises)))
    /\ python_files' = Tail(python_files)
    /\ UNCHANGED <<disk, orphans, observer, pc, last, task, seen>>

\* lines 301-302: one turn of the loop
ScanAddFile(src, fail_at, dup_raises) ==
    /\ pc = "scanning"
    /\ python_files # <<>>
    /\ src \in SourcesOf(Head(python_files))
    /\ Count
    /\ Install(AddFile(Engine, Head(python_files), src, fail_at, dup_raises))
    /\ python_files' = Tail(python_files)
    /\ UNCHANGED <<disk, orphans, observer, pc, last, task, seen>>

\* line 305, and start_watching, which an error of line 305 skips
RescanEnd ==
    /\ pc = "scanning"
    /\ python_files = <<>>
    /\ Install(Rebuild(Engine))
    /\ observer' = IF BuildRaises(file_info) THEN "None" ELSE "running"
    /\ pc' = "idle"
    /\ last' = [Done("scan", NoPath) EXCEPT !.raised = BuildRaises(file_info)]
    /\ UNCHANGED <<disk, orphans, python_files, events, task, seen>>

-----------------------------------------------------------------------------

Init ==
    /\ file_info = <<>>
    /\ nodes = {}
    /\ edges = <<>>
    /\ vec = {}
    /\ observer = "running"
    /\ pc = "idle"
    /\ python_files = <<>>
    /\ last = [op |-> "init", path |-> NoPath, raised |-> FALSE,
               is_directory |-> FALSE, fresh |-> FALSE,
               vec_ids |-> 0, dependents |-> 0]
    /\ events = 0
    /\ task = [t \in Threads |-> Idle]
    /\ seen = NotAsked
    /\ disk = {}
    /\ orphans = 0

\* One step over the files ps, the provider failing at one of fs
Step(ps, fs) ==
    \/ \E p \in ps, f \in fs, d \in BOOLEAN :
          \E src \in SourcesOf(p) : OnCreated(FileEvent(p), src, f, d)
    \/ \E p \in ps, f \in fs, d \in BOOLEAN :
          \E src \in SourcesOf(p) : OnModified(FileEvent(p), src, f, d)
    \/ \E p \in ps : OnDeleted(FileEvent(p))
    \/ \E l \in Listings : Range(l) \subseteq ps /\ RescanBegin(l)
    \/ \E src \in Sources, f \in fs, d \in BOOLEAN : ScanAddFile(src, f, d)
    \/ RescanEnd

\* The embedding provider answers every call
Next == Step(Paths, {0})

Spec == Init /\ [][Next]_vars

\* The embedding provider may fail any add call; two files
ProviderPaths == {PathA, PathXA}

NextProvider == Step(ProviderPaths, FailPoints)

SpecProvider == Init /\ [][NextProvider]_vars

-----------------------------------------------------------------------------
(* update_file on the watcher thread, statement by statement, and the       *)
(* queries that the routes run on the request threads.  No lock is taken by *)
(* either.                                                                  *)

\* The query operations of the routes
QueryKinds ==
    {"dependents", "dependencies", "callers", "impact", "file_info", "stats", "code_map"}

Answer(st, kind, p) ==
    CASE kind = "dependents"   -> GetDependents(st, p)
      [] kind = "dependencies" -> GetDependencies(st, p)
      [] kind = "callers"      -> GetFunctionCalls(st, NameH)
      [] kind = "impact"       -> GetImpactAnalysis(st, p)
      [] kind = "file_info"    -> GetFileInfo(st, p)
      [] kind = "stats"        -> GetSystemStats(st)
      [] kind = "code_map"     -> GenerateCodeMap(st)

\* line 339: self.remove_file(file_path)
UpdateRemove(p, src) ==
    /\ observer = "running"
    /\ task["watcher"] = Idle
    /\ Count
    /\ Install(RemoveFile(Engine, p))
    /\ task' = [task EXCEPT !["watcher"] =
                   [op |-> "update", step |-> "removed", path |-> p, src |-> src,
                    before |-> Engine, done |-> Done("modified", p)]]
    /\ UNCHANGED <<disk, orphans, observer, pc, python_files, last, seen>>

\* line 342: self.add_file(file_path)
UpdateAdd ==
    /\ task["watcher"].step = "removed"
    /\ Install(AddFile(Engine, task["watcher"].path, task["watcher"].src, 0, FALSE))
    /\ task' = [task EXCEPT !["watcher"].step = "added"]
    /\ UNCHANGED <<disk, orphans, observer, pc, python_files, last, events, seen>>

\* lines 476-477 of _build_relationships
UpdateClear ==
    /\ task["watcher"].step = "added"
    /\ edges' = ClearEdges(GraphOf(Engine)).edges
    /\ task' = [task EXCEPT !["watcher"].step = "cleared"]
    /\ UNCHANGED <<disk, orphans, file_info, nodes, vec, observer, pc, python_files, last, events, seen>>

\* lines 480-492; the error of line 535 ends update_file, the handler and
\* the thread
UpdateImports ==
    /\ task["watcher"].step = "cleared"
    /\ LET g == ImportEdges(GraphOf(Engine), file_info, FilesReached(file_info))
       IN  nodes' = g.nodes /\ edges' = g.edges
    /\ IF BuildRaises(file_info)
       THEN /\ task' = [task EXCEPT !["watcher"] = Idle]
            /\ observer' = "dead"
            /\ last' = [task["watcher"].done EXCEPT !.raised = TRUE]
       ELSE /\ task' = [task EXCEPT !["watcher"].step = "imports"]
            /\ UNCHANGED <<observer, last>>
    /\ UNCHANGED <<disk, orphans, file_info, vec, pc, python_files, events, seen>>

\* lines 495-530, and the return of update_file and on_modified
UpdateCalls ==
    /\ task["watcher"].step = "imports"
    /\ LET g == CallEdges(GraphOf(Engine), file_info, file_info)
       IN  nodes' = g.nodes /\ edges' = g.edges
    /\ task' = [task EXCEPT !["watcher"] = Idle]
    /\ last' = task["watcher"].done
    /\ UNCHANGED <<disk, orphans, file_info, vec, observer, pc, python_files, events, seen>>

\* The state that the update in flight started from, and the one it ends in
Before == task["watcher"].before
After ==
    UpdateFile(Before, task["watcher"].path, task["watcher"].src, 0, FALSE)

\* Variant: the query registers the path it was asked about
ObserveAndRegister(kind, p) ==
    /\ Count
    /\ seen' = [kind  |-> kind, path |-> p, step |-> task["watcher"].step,
                whole |-> \/ task["watcher"] = Idle
                          \/ Answer(Engine, kind, p) = Answer(Before, kind, p)
                          \/ Answer(Engine, kind, p) = Answer(After, kind, p)]
    /\ nodes' = nodes \cup {p}
    /\ UNCHANGED <<disk, orphans, file_info, edges, vec, observer, pc, python_files, last, task>>

\* A route answers a query from the state as it is while the watcher thread
\* is at whatever statement it has reached
Observe(kind, p) ==
    /\ Count
    /\ seen' = [kind  |-> kind, path |-> p, step |-> task["watcher"].step,
                whole |-> \/ task["watcher"] = Idle
                          \/ Answer(Engine, kind, p) = Answer(Before, kind, p)
                          \/ Answer(Engine, kind, p) = Answer(After, kind, p)]
    /\ UNCHANGED <<disk, orphans, file_info, nodes, edges, vec, observer, pc, python_files, last, task>>

RacePaths == {PathA, PathB}

NextQueryRace ==
    \/ \E p \in RacePaths : \E src \in SourcesOf(p) : OnCreated(FileEvent(p), src, 0, FALSE)
    \/ \E p \in RacePaths : \E src \in SourcesOf(p) : UpdateRemove(p, src)
    \/ UpdateAdd
    \/ UpdateClear
    \/ UpdateImports
    \/ UpdateCalls
    \/ \E kind \in QueryKinds, p \in RacePaths : Observe(kind, p)

SpecQueryRace == Init /\ [][NextQueryRace]_vars

-----------------------------------------------------------------------------
(* rescan_project on the request threads, statement by statement: the       *)
(* server runs every request on a thread of its own, and the route takes no *)
(* lock.                                                                    *)

\* line 143, stop_watching line 561: if self.observer is not None
ReqStopCheck(r) ==
    /\ task[r] = Idle
    /\ Count
    /\ task' = [task EXCEPT ![r] =
                   [op |-> "rescan",
                    step |-> IF observer = "None" THEN "stopped" ELSE "stopping",
                    files |-> <<>>]]
    /\ UNCHANGED <<disk, orphans, file_info, nodes, edges, vec, observer, pc,
                   python_files, last, seen>>

\* stop_watching lines 562-564.  join returns when the Observer's thread has
\* ended, and raises on an Observer that was never started; self.observer
\* may have been set to None by another request since line 561.  The error
\* ends the request.
ReqStopJoin(r) ==
    /\ task[r].step = "stopping"
    /\ IF observer \in {"None", "new"}
       THEN /\ task' = [task EXCEPT ![r] = Idle]
            /\ last' = [Done("rescan", NoPath) EXCEPT !.raised = TRUE]
            /\ UNCHANGED observer
       ELSE /\ task["watcher"] = Idle
            /\ task' = [task EXCEPT ![r].step = "stopped"]
            /\ observer' = "None"
            /\ UNCHANGED last
    /\ UNCHANGED <<disk, orphans, file_info, nodes, edges, vec, pc, python_files,
                   events, seen>>

\* lines 294-298 of scan_project
ReqWalk(r, listing) ==
    /\ task[r].step = "stopped"
    /\ task' = [task EXCEPT ![r] = [op |-> "rescan", step |-> "scanning", files |-> listing,
                                    listed |-> listing, vec_before |-> vec]]
    /\ UNCHANGED <<disk, orphans, file_info, nodes, edges, vec, observer, pc, python_files, last,
                   events, seen>>

\* lines 301-302: one turn of the loop
ReqAddFile(r, src) ==
    /\ task[r].step = "scanning"
    /\ task[r].files # <<>>
    /\ src \in SourcesOf(Head(task[r].files))
    /\ Install(AddFile(Engine, Head(task[r].files), src, 0, FALSE))
    /\ task' = [task EXCEPT ![r].files = Tail(task[r].files)]
    /\ UNCHANGED <<disk, orphans, observer, pc, python_files, last, events, seen>>

\* line 305; its error ends the request
ReqBuild(r) ==
    /\ task[r].step = "scanning"
    /\ task[r].files = <<>>
    /\ Install(Rebuild(Engine))
    /\ IF BuildRaises(file_info)
       THEN /\ task' = [task EXCEPT ![r] = Idle]
            /\ last' = [Done("scan", NoPath) EXCEPT !.raised = TRUE]
       ELSE /\ task' = [task EXCEPT ![r].step = "built"]
            /\ UNCHANGED last
    /\ UNCHANGED <<disk, orphans, observer, pc, python_files, events, seen>>

\* line 149, start_watching line 553: if self.observer is None
ReqStartCheck(r) ==
    /\ task[r].step = "built"
    /\ IF observer = "None"
       THEN /\ task' = [task EXCEPT ![r].step = "checked"]
            /\ UNCHANGED last
       ELSE /\ task' = [task EXCEPT ![r] = Idle]
            /\ last' = Done("scan", NoPath)
    /\ UNCHANGED <<disk, orphans, file_info, nodes, edges, vec, observer, pc,
                   python_files, events, seen>>

\* line 554: self.observer = Observer().  An Observer that another request
\* has started since line 553 keeps running, and nothing refers to it.
ReqStartAssign(r) ==
    /\ task[r].step = "checked"
    /\ orphans' = IF observer = "running" THEN orphans + 1 ELSE orphans
    /\ observer' = "new"
    /\ task' = [task EXCEPT ![r].step = "assigned"]
    /\ UNCHANGED <<disk, file_info, nodes, edges, vec, pc, python_files, last,
                   events, seen>>

\* lines 555-556: schedule and start whatever self.observer holds by now;
\* start raises on a thread that was started before, and None has no start
ReqStartRun(r) ==
    /\ task[r].step = "assigned"
    /\ task' = [task EXCEPT ![r] = Idle]
    /\ observer' = IF observer = "new" THEN "running" ELSE observer
    /\ last' = [Done("scan", NoPath) EXCEPT !.raised = (observer # "new")]
    /\ UNCHANGED <<disk, orphans, file_info, nodes, edges, vec, pc, python_files,
                   events, seen>>

\* The thread is in the middle of a mutating operation
Mutating(t) ==
    \/ task[t].op = "update"
    \/ task[t].op = "rescan" /\ task[t].step = "scanning"

\* The file that the scans find, and the file that is edited meanwhile
ListedPaths == {PathB}
EditedPaths == {PathA}

NextRescanRace ==
    \/ \E r \in Requests : ReqStopCheck(r)
    \/ \E r \in Requests : ReqStopJoin(r)
    \/ \E r \in Requests, l \in Listings : Range(l) \subseteq ListedPaths /\ ReqWalk(r, l)
    \/ \E r \in Requests, src \in Sources : ReqAddFile(r, src)
    \/ \E r \in Requests : ReqBuild(r)
    \/ \E r \in Requests : ReqStartCheck(r)
    \/ \E r \in Requests : ReqStartAssign(r)
    \/ \E r \in Requests : ReqStartRun(r)
    \/ \E p \in EditedPaths : \E src \in SourcesOf(p) : UpdateRemove(p, src)
    \/ UpdateAdd
    \/ UpdateClear
    \/ UpdateImports
    \/ UpdateCalls

SpecRescanRace == Init /\ [][NextRescanRace]_vars

-----------------------------------------------------------------------------
(* The routes /query and /search, each request answered in one step *)

\* query(): dev_chat.process_query(query_text)
Ask(q, raised, r) ==
    /\ Count
    /\ r \in QueryResults(vec)
    /\ seen' = [kind |-> "query", query |-> q, failed |-> raised,
                answer |-> ProcessQuery(Engine, q, SearchCode(vec, raised, r))]
    /\ UNCHANGED <<disk, orphans, file_info, nodes, edges, vec, observer, pc, python_files, last, task>>

\* search_code(): dev_chat.search_code(query, n_results) with the default n
Search(q, raised, r) ==
    /\ Count
    /\ r \in QueryResults(vec)
    /\ seen' = [kind |-> "search", query |-> q, failed |-> raised,
                answer |-> SearchCode(vec, raised, r)]
    /\ UNCHANGED <<disk, orphans, file_info, nodes, edges, vec, observer, pc, python_files, last, task>>

NextQuery ==
    \/ Step(RacePaths, {0})
    \/ \E q \in Queries, raised \in BOOLEAN, r \in SUBSET vec : Ask(q, raised, r)
    \/ \E raised \in BOOLEAN, r \in SUBSET vec : Search(QueryOther, raised, r)

SpecQuery == Init /\ [][NextQuery]_vars

-----------------------------------------------------------------------------
(* The files under project_root.  A change of the file system reaches the  *)
(* engine only through a handler of a running Observer, or through the     *)
(* os.walk of a later scan.                                                *)

\* A .py file appears; on_created runs if an Observer is running
FileCreated(p, src) ==
    /\ p \notin disk
    /\ Count
    /\ disk' = disk \cup {p}
    /\ IF observer = "running"
       THEN /\ Install(AddFile(Engine, p, src, 0, FALSE))
            /\ last' = Done("created", p)
       ELSE UNCHANGED <<file_info, nodes, edges, vec, last>>
    /\ UNCHANGED <<orphans, observer, pc, python_files, task, seen>>

\* A .py file is written; on_modified runs if an Observer is running
FileModified(p, src) ==
    /\ p \in disk
    /\ Count
    /\ IF observer = "running"
       THEN /\ Install(UpdateFile(Engine, p, src, 0, FALSE))
            /\ last' = [Done("modified", p) EXCEPT !.raised = BuildRaises(file_info')]
            /\ observer' = IF BuildRaises(file_info') THEN "dead" ELSE observer
       ELSE UNCHANGED <<file_info, nodes, edges, vec, last, observer>>
    /\ UNCHANGED <<disk, orphans, pc, python_files, task, seen>>

\* A .py file is removed; on_deleted runs if an Observer is running.  The
\* files that a scan has listed and not yet read stay.
FileDeleted(p) ==
    /\ p \in disk
    /\ p \notin Range(python_files)
    /\ Count
    /\ disk' = disk \ {p}
    /\ IF observer = "running"
       THEN /\ Install(RemoveFile(Engine, p))
            /\ last' = Done("deleted", p)
       ELSE UNCHANGED <<file_info, nodes, edges, vec, last>>
    /\ UNCHANGED <<orphans, observer, pc, python_files, task, seen>>

\* os.walk lists the files that exist
NextFiles ==
    \/ \E p \in RacePaths : \E src \in SourcesOf(p) : FileCreated(p, src)
    \/ \E p \in RacePaths : \E src \in SourcesOf(p) : FileModified(p, src)
    \/ \E p \in RacePaths : FileDeleted(p)
    \/ \E l \in Listings : Range(l) = disk /\ RescanBegin(l)
    \/ \E src \in Sources : ScanAddFile(src, 0, FALSE)
    \/ RescanEnd

SpecFiles == Init /\ [][NextFiles]_vars

-----------------------------------------------------------------------------
(* Every event that the Observer dispatches: files of any name, and         *)
(* directories                                                              *)

DirPath == <<"x">>
TextPath == <<"a", ".txt">>

EventPaths == {PathA, PathB, DirPath, TextPath}

Events == [src_path : EventPaths, is_directory : BOOLEAN]

NextEvents ==
    \/ \E event \in Events : \E src \in SourcesOf(event.src_path) :
          OnCreated(event, src, 0, FALSE)
    \/ \E event \in Events : \E src \in SourcesOf(event.src_path) :
          OnModified(event, src, 0, FALSE)
    \/ \E event \in Events : OnDeleted(event)

SpecEvents == Init /\ [][NextEvents]_vars

-----------------------------------------------------------------------------
(* The queries of the routes between the events of the watcher, asked about *)
(* indexed paths and about a path that was never indexed                    *)

UnknownPath == <<"c", ".py">>

AskedPaths == RacePaths \cup {UnknownPath}

NextReadOnly ==
    \/ \E p \in RacePaths : \E src \in SourcesOf(p) : OnCreated(FileEvent(p), src, 0, FALSE)
    \/ \E p \in RacePaths : \E src \in SourcesOf(p) : OnModified(FileEvent(p), src, 0, FALSE)
    \/ \E p \in RacePaths : OnDeleted(FileEvent(p))
    \/ \E kind \in QueryKinds, p \in AskedPaths : Observe(kind, p)
    \/ \E q \in Queries, r \in SUBSET vec : Ask(q, FALSE, r)

SpecReadOnly == Init /\ [][NextReadOnly]_vars

-----------------------------------------------------------------------------
(* Impact analysis over every import graph of a project of three files:    *)
(* the engine as __init__ leaves it after scan_project, and the route      *)
(* /impact asked about each file                                           *)

PathC == <<"c", ".py">>
ModC == <<"c">>

ProjectPaths == <<PathA, PathB, PathC>>

\* The modules a file of the project imports, in the order of its lines
ImportLists ==
    {<<>>, <<ModA>>, <<ModB>>, <<ModC>>, <<ModA, ModB>>, <<ModA, ModC>>,
     <<ModB, ModC>>, <<ModA, ModB, ModC>>}

TextOf(ms) ==
    CASE ms = <<>>                 -> "pass"
      [] ms = <<ModA>>             -> "import_a"
      [] ms = <<ModB>>             -> "import_b"
      [] ms = <<ModC>>             -> "import_c"
      [] ms = <<ModA, ModB>>       -> "import_a_b"
      [] ms = <<ModA, ModC>>       -> "import_a_c"
      [] ms = <<ModB, ModC>>       -> "import_b_c"
      [] ms = <<ModA, ModB, ModC>> -> "import_a_b_c"

\* import m1 / import m2 / ...
SrcImports(ms) ==
    [text |-> TextOf(ms), syntax_ok |-> TRUE,
     imports |-> [i \in 1..Len(ms) |-> Import(ms[i])],
     classdefs |-> <<>>, functiondefs |-> <<>>, calls |-> <<>>]

\* scan_project over the files srcs, from the empty engine of __init__
RECURSIVE ScanFiles(_, _, _)
ScanFiles(st, paths, srcs) ==
    IF paths = <<>> THEN Rebuild(st)
    ELSE ScanFiles(AddFile(st, Head(paths), Head(srcs), 0, FALSE), Tail(paths), Tail(srcs))

EmptyEngine == [file_info |-> <<>>, nodes |-> {}, edges |-> <<>>, vec |-> {}]

InitImpact ==
    /\ \E ma, mb, mc \in ImportLists :
          LET st == ScanFiles(EmptyEngine, ProjectPaths,
                              <<SrcImports(ma), SrcImports(mb), SrcImports(mc)>>)
          IN  /\ file_info = st.file_info
              /\ nodes = st.nodes
              /\ edges = st.edges
              /\ vec = st.vec
    /\ observer = "running"
    /\ pc = "idle"
    /\ python_files = <<>>
    /\ last = [op |-> "scan", path |-> NoPath, raised |-> FALSE,
               is_directory |-> FALSE, fresh |-> FALSE,
               vec_ids |-> 0, dependents |-> 0]
    /\ events = 0
    /\ task = [t \in Threads |-> Idle]
    /\ seen = NotAsked
    /\ disk = Range(ProjectPaths)
    /\ orphans = 0

\* get_impact_analysis(): dev_chat.get_impact_analysis(file_path)
AskImpact(p) ==
    /\ Count
    /\ seen' = [kind |-> "impact", path |-> p, answer |-> GetImpactAnalysis(Engine, p)]
    /\ UNCHANGED <<disk, orphans, file_info, nodes, edges, vec, observer, pc,
                   python_files, last, task>>

NextImpact == \E p \in Range(ProjectPaths) : AskImpact(p)

SpecImpact == InitImpact /\ [][NextImpact]_vars

-----------------------------------------------------------------------------
(* Properties *)

Graph == [nodes |-> nodes, edges |-> edges]

\* The class and function identities declared by the records of the index
DeclaredIds ==
    UNION {{ClassId(file_info[i].key, c) :
                c \in Range(GetList(file_info[i].info, "classes"))}
           \cup {FunctionId(file_info[i].key, f) :
                f \in Range(GetList(file_info[i].info, "functions"))}
           : i \in 1..Len(file_info)}

\* What _build_relationships computes from the index as it is now
RebuiltEdges == EdgeSet(BuildRelationships(Graph, file_info).edges)

SourcesIn(list) == {list[i].source : i \in 1..Len(list)}

\* C1: once an event or scan is fully processed, every edge starts at an
\* indexed path and ends at an indexed path or at a class/function identity
\* that a current record declares; so no edge touches a deleted file.
C1_EdgesWithinIndex ==
    /\ pc = "idle" =>
          \A e \in EdgeSet(edges) :
              /\ HasKey(file_info, e.source)
              /\ HasKey(file_info, e.target) \/ e.target \in DeclaredIds
    /\ last.op = "deleted" =>
          \A e \in EdgeSet(edges) :
              /\ e.source # last.path /\ e.target # last.path
              /\ ~OwnedBy(e.target, last.path)

\* C2: after a created event for a path that was not indexed, the edge set
\* is the one the edge rebuild computes from the updated index.
C2_CreatedRebuildsEdges ==
    (last.op = "created" /\ last.fresh) => EdgeSet(edges) = RebuiltEdges

\* C3: a modified event for an indexed file that leaves its record as it was
\* (unchanged content) leaves the edge set as it was.  Stated for a graph
\* that is up to date before the event, the case most favourable to the
\* round trip.
C3_UpdateRoundTrip ==
    [][\A p \in Paths :
          ( /\ events' = events + 1
            /\ last'.op = "modified" /\ last'.path = p
            /\ HasKey(file_info, p)
            /\ Lookup(file_info', p) = Lookup(file_info, p)
            /\ EdgeSet(edges) = RebuiltEdges )
          => EdgeSet(edges') = EdgeSet(edges)]_vars

\* C4: a.py declares the module-level function h, b.py holds
\* "from a import h" and the call h(); after a scan of both, b.py is a
\* dependent of a.py and a caller of h.
C4_ImportAndCallScenario ==
    ( /\ last.op = "scan"
      /\ HasKey(file_info, PathA) /\ HasKey(file_info, PathB)
      /\ Lookup(file_info, PathA) = ParseFile(PathA, SrcDefH)
      /\ Lookup(file_info, PathB) = ParseFile(PathB, SrcUseA) )
    => /\ PathB \in SourcesIn(GetDependents(Engine, PathA))
       /\ PathB \in SourcesIn(GetFunctionCalls(Engine, NameH))

IsImpactQuery(q) ==
    HasKeyword(q, {"impact", "affect", "change"}) /\ FileMatch(q) # <<0, 0>>

FileNameOf(q) == SubSeq(q, FileMatch(q)[1], FileMatch(q)[2])

NoEntryOf(v, f) == \A id \in v : id # f /\ ~OwnedBy(id, f)

C7_RebuildTwiceSameEdges ==
    /\ (pc = "idle" /\ last.op \in {"modified", "scan"}) => RebuiltEdges = EdgeSet(edges)
    /\ LET once == BuildRelationships(Graph, file_info)
       IN  EdgeSet(BuildRelationships(once, file_info).edges) = EdgeSet(once.edges)

C7_Witness ==
    /\ last.op = "modified"
    /\ Cardinality(EdgeSet(edges)) >= 3
    /\ \E e \in EdgeSet(edges) : e.type = "calls"
    /\ RebuiltEdges = EdgeSet(edges)

\* Every path a query can be asked about: the project's files and one more
QueryPaths == Paths \cup {<<"c", ".py">>}

NoDuplicates(list) == \A i, j \in 1..Len(list) : list[i].source = list[j].source => i = j

\* C8: the transitive list of an impact analysis names each path at most
\* once and never names the analysed file, whatever cycles the imports have.
C8_TransitiveOnceAndNotSelf ==
    \A p \in QueryPaths :
        LET t == GetImpactAnalysis(Engine, p).transitive_dependents
        IN  NoDuplicates(t) /\ p \notin SourcesIn(t)

\* The files that import x
ImportersOf(x) ==
    {e.source : e \in {d \in EdgeSet(edges) : d.type = "imports" /\ d.target = x}}

\* A state where p lies on an import cycle and has transitive dependents
C8_Witness ==
    \E p \in Paths :
        /\ \E d \in ImportersOf(p) : d # p /\ p \in ImportersOf(d)
        /\ GetImpactAnalysis(Engine, p).transitive_dependents # <<>>

\* The files reached from the files of from by one or more imported-by steps
RECURSIVE ReachedFrom(_, _)
ReachedFrom(from, reached) ==
    LET more == UNION {ImportersOf(x) : x \in from \cup reached}
    IN  IF more \subseteq reached THEN reached ELSE ReachedFrom(from, reached \cup more)

\* The same, no step continuing from p once p has been reached
RECURSIVE ReachedAvoiding(_, _, _)
ReachedAvoiding(p, from, reached) ==
    LET more == UNION {ImportersOf(x) : x \in from \cup reached} \ {p}
    IN  IF more \subseteq reached THEN reached ELSE ReachedAvoiding(p, from, reached \cup more)

\* C9 as claimed: direct is dependents(p), and transitive is exactly the set
\* of files other than p reachable from a direct dependent by one or more
\* imported-by steps.
C9_TransitiveIsReachable ==
    \A p \in QueryPaths :
        LET res == GetImpactAnalysis(Engine, p)
        IN  /\ res.direct_dependents = GetDependents(Engine, p)
            /\ SourcesIn(res.transitive_dependents)
                 = ReachedFrom(SourcesIn(res.direct_dependents), {}) \ {p}

\* C9 as the code has it: the steps are taken from the direct dependents and
\* from the files reached, p never being reached, so a chain that leads
\* back through p is not followed.
C9_TransitiveIsReachableAvoidingSelf ==
    \A p \in QueryPaths :
        LET res == GetImpactAnalysis(Engine, p)
        IN  /\ p \in nodes => SourcesIn(res.direct_dependents) = ImportersOf(p)
            /\ p \notin nodes => res.direct_dependents = <<>>
            /\ SourcesIn(res.transitive_dependents)
                 = ReachedAvoiding(p, SourcesIn(res.direct_dependents), {})

C9_Witness ==
    \E p \in Paths :
        LET res == GetImpactAnalysis(Engine, p)
        IN  /\ Cardinality(SourcesIn(res.transitive_dependents)) = 2
            /\ Len(res.direct_dependents) = 3

\* C10: after a deleted event for f, dependents(f) and dependencies(f) are
\* empty, getFileInfo(f) finds nothing and impact(f) is empty with count 0.
C10_DeletedFileAnswersEmpty ==
    last.op = "deleted" =>
        LET f == last.path
            res == GetImpactAnalysis(Engine, f)
        IN  /\ GetDependents(Engine, f) = <<>>
            /\ GetDependencies(Engine, f) = <<>>
            /\ ~GetFileInfo(Engine, f).found
            /\ res.direct_dependents = <<>>
            /\ res.transitive_dependents = <<>>
            /\ res.functions = <<>>
            /\ res.classes = <<>>
            /\ res.total_impact_count = 0

\* The deleted file had a class and two files importing it
C10_Witness ==
    /\ last.op = "deleted"
    /\ last.dependents >= 2
    /\ last.vec_ids = 2

\* C11: a query of a request thread is answered from a whole state: while a
\* modified event is being handled it gets the answer of the state before
\* the update or the answer of the state after it.
C11_QueriesSeeWholeStates ==
    seen.kind # "none" => seen.whole

\* C12: the mutations are totally ordered: at no time are two threads in the
\* middle of a mutating operation (the handling of a watcher event, the scan
\* of a rescan request), also when two rescan requests arrive together.
C12_OneMutationAtATime ==
    Cardinality({t \in Threads : Mutating(t)}) <= 1

\* C13: a rescan request that has ended, whatever happened during its scan,
\* has left the watcher watching.
C13_RescanLeavesWatching ==
    (pc = "idle" /\ last.op = "scan") => observer = "running"

\* C14: an exception raised while a watcher event is handled does not stop
\* the watch loop: the thread that handles the events lives on.
C14_WatchLoopSurvives ==
    (last.op \in {"created", "modified", "deleted"} /\ last.raised)
        => observer = "running"

\* The index without the imports that name no module
NamedImports(fi) ==
    [i \in 1..Len(fi) |->
        [key  |-> fi[i].key,
         info |-> IF Failed(fi[i].info) THEN fi[i].info
                  ELSE [fi[i].info EXCEPT
                           !.imports = SelectSeq(fi[i].info.imports,
                                                 LAMBDA imp : ~ImportRaises(imp))]]]

\* The edges of every import that resolves and of every call
ResolvableEdges ==
    EdgeSet(CallEdges(ImportEdges([nodes |-> nodes, edges |-> <<>>], file_info,
                                  NamedImports(file_info)),
                      file_info, file_info).edges)

\* C15: the edge rebuild of a modified event or a scan raises nothing,
\* whatever imports the index holds, and leaves the edges of all imports
\* that resolve and of all calls; an import that does not resolve adds none.
C15_RebuildSkipsUnresolvable ==
    (pc = "idle" /\ last.op \in {"modified", "scan"})
        => ~last.raised /\ EdgeSet(edges) = ResolvableEdges

\* The indexed files whose parse failed
FailedFiles == {file_info[i].key : i \in {j \in 1..Len(file_info) : Failed(file_info[j].info)}}

OnlyPathAndError(f) ==
    /\ GetFileInfo(Engine, f).found
    /\ DOMAIN GetFileInfo(Engine, f).info = {"path", "error"}
    /\ GetFileInfo(Engine, f).info.path = f

C17_FailedSearchIsEmpty ==
    /\ (seen.kind = "search" /\ seen.failed) => seen.answer = {}
    /\ (seen.kind = "query" /\ seen.query = QueryOther)
          => seen.answer.type = "semantic_search"
    /\ (seen.kind = "query" /\ seen.failed /\ seen.answer.type = "semantic_search")
          => seen.answer.results = {}

\* The provider failed on a fall-through query while the store held entries
C17_Witness ==
    /\ seen.kind = "query"
    /\ seen.failed
    /\ seen.query = QueryOther
    /\ vec # {}

IsDatabaseQuery(q) == HasKeyword(q, {"database", "db", "sql"})

TargetsIn(list) == {list[i].target : i \in 1..Len(list)}

IndexedFiles == Range(Keys(file_info))

\* C19: dependents(p) and dependencies(p) list only direct edges of kind
\* imports, and for indexed files a and b, b is a dependent of a exactly
\* when a is a dependency of b.
C19_ImportsOnlyAndDual ==
    /\ \A p \in QueryPaths :
          /\ \A b \in SourcesIn(GetDependents(Engine, p)) :
                [source |-> b, target |-> p, type |-> "imports"] \in EdgeSet(edges)
          /\ \A a \in TargetsIn(GetDependencies(Engine, p)) :
                [source |-> p, target |-> a, type |-> "imports"] \in EdgeSet(edges)
    /\ \A a, b \in IndexedFiles :
          b \in SourcesIn(GetDependents(Engine, a))
              <=> a \in TargetsIn(GetDependencies(Engine, b))

\* A file that has an imports edge and a calls edge
C19_Witness ==
    \E b \in IndexedFiles :
        /\ GetDependencies(Engine, b) # <<>>
        /\ \E e \in EdgeSet(edges) : e.source = b /\ e.type = "calls"
        /\ \E a \in IndexedFiles : a # b /\ b \in SourcesIn(GetDependents(Engine, a))

\* The text that the file f of the index was parsed from declares the
\* function n, the class n
DeclaresFunction(f, n) ==
    \E src \in SourcesOf(f) :
        /\ Lookup(file_info, f) = ParseFile(f, src)
        /\ n \in Range(src.functiondefs)
DeclaresClass(f, n) ==
    \E src \in SourcesOf(f) :
        /\ Lookup(file_info, f) = ParseFile(f, src)
        /\ src.syntax_ok
        /\ n \in Range(src.classdefs)

CallsOf(f) == Range(GetList(Lookup(file_info, f), "function_calls"))

\* C20: after an edge rebuild, a file with the bare call n() has a calls
\* edge to the function identity of every indexed file that declares a
\* function n, and a file with a dotted call n.m() has a calls edge to the
\* class identity of every indexed file that declares a class n.
C20_CallsLinkEveryDeclaration ==
    (pc = "idle" /\ last.op \in {"modified", "scan"} /\ ~last.raised) =>
        \A c \in IndexedFiles : \A call \in CallsOf(c) :
            LET functions == {f \in IndexedFiles : DeclaresFunction(f, call)}
                classes   == {f \in IndexedFiles : DeclaresClass(f, FirstPart(call))}
            IN  /\ (~Contains(call, ".") /\ Cardinality(functions) >= 2)
                      => \A f \in functions :
                            [source |-> c, target |-> FunctionId(f, call), type |-> "calls"]
                                \in EdgeSet(edges)
                /\ (Contains(call, ".") /\ Cardinality(classes) >= 2)
                      => \A f \in classes :
                            [source |-> c, target |-> ClassId(f, FirstPart(call)),
                             type |-> "calls"] \in EdgeSet(edges)

\* The orders in which the entries of the index fi can have been inserted
Orderings(fi) ==
    {o \in [1..Len(fi) -> 1..Len(fi)] : \A i, j \in 1..Len(fi) : o[i] = o[j] => i = j}

Reordered(fi, o) == [i \in 1..Len(fi) |-> fi[o[i]]]

\* C21: the edges of the edge rebuild depend on the path-to-record mapping
\* only: the same mapping inserted in another order gives the same edge set.
\* Stated for the indexes on which the rebuild raises nothing.
C21_RebuildIgnoresInsertionOrder ==
    ~BuildRaises(file_info) =>
        \A o \in Orderings(file_info) :
            EdgeSet(BuildRelationships(Graph, Reordered(file_info, o)).edges)
                = RebuiltEdges

\* The Observers whose thread runs
RunningObservers == (IF observer = "running" THEN 1 ELSE 0) + orphans

\* C26: in every reachable state at most one filesystem observer runs for the
\* engine, also when concurrent rescan requests call stop_watching and
\* start_watching.
C26_AtMostOneObserver == RunningObservers <= 1

\* C22: after a rescan has completed, the indexed paths are exactly the .py
\* files that exist under the root.
C22_RescanIndexesExistingFiles ==
    (pc = "idle" /\ last.op = "scan" /\ ~last.raised) => IndexedFiles = disk

\* The nodes of the graph that stand for a class or a function
DeclarationNodes == {n \in nodes : \E i \in 1..Len(n) : n[i] \in ColonTokens}

\* C23: after any sequence of events every class/function node id is
\* <path>:class:<name> or <path>:function:<name> of a declaration of the
\* current record of an indexed <path>, and the edge rebuild leaves the node
\* set unchanged.
C23_NodesFollowTheirFile ==
    pc = "idle" =>
        /\ DeclarationNodes \subseteq DeclaredIds
        /\ BuildRelationships(Graph, file_info).nodes = nodes

\* The update_file in flight has stored the new record and has not yet
\* completed its edge rebuild
UpdateAwaitsRebuild ==
    /\ task["watcher"].op = "update"
    /\ task["watcher"].step \in {"added", "cleared", "imports"}

\* The scan of request r has not yet run its edge rebuild
ScanAwaitsRebuild(r) == task[r].op = "rescan" /\ task[r].step = "scanning"

EntriesOf(v, f) == {id \in v : id = f \/ OwnedBy(id, f)}

C25_ScanRebuildsOnceAtTheEnd ==
    [][pc = "scanning" =>
          IF pc' = "scanning"
          THEN edges' = edges
          ELSE /\ python_files = <<>>
               /\ file_info' = file_info
               /\ edges' = BuildRelationships(Graph, file_info).edges]_vars

C25_Witness ==
    /\ pc = "idle"
    /\ last.op = "scan"
    /\ ~last.raised
    /\ Len(file_info) >= 2
    /\ Len(edges) >= 2

\* The records that a parse of the file f can give
FreshRecords(f) == {ParseFile(f, src) : src \in SourcesOf(f)}

\* The vector ids derived from the current record of f
DerivedIds(f) == Range(VectorIds(f, Lookup(file_info, f)))

C28_VectorIdsJoinTheIndex ==
    pc = "idle" => vec \subseteq IndexedFiles \cup DeclaredIds

\* C29: a vector upsert that fails is a no-op for the vector store (of the
\* file's entries either all or none are there afterwards), is not
\* propagated, and leaves the file's record and node in place.  Stated for
\* the upserts that start with no entry of the file in the store: a modified
\* event, and a created event for a path that owned none.
C29_FailedUpsertIsNoOp ==
    (/\ last.op \in {"created", "modified"}
     /\ last.op = "created" => last.vec_ids = 0)
        => /\ HasKey(file_info, last.path)
           /\ last.path \in nodes
           /\ \/ EntriesOf(vec, last.path) = {}
              \/ EntriesOf(vec, last.path) = DerivedIds(last.path)

\* The nodes of the graph that stand for a file
FileNodes == nodes \ DeclarationNodes

\* C30: in every state reached after a watcher event or a scan has completed,
\* the file nodes of the graph are the paths of the index, every indexed
\* path has one record, and get_system_stats reports no fewer nodes than
\* files.
C30_FileNodesAreIndexedPaths ==
    pc = "idle" =>
        /\ FileNodes = IndexedFiles
        /\ \A i, j \in 1..Len(file_info) : file_info[i].key = file_info[j].key => i = j
        /\ GetSystemStats(Engine).nodes >= GetSystemStats(Engine).files

C30_Witness ==
    /\ pc = "idle"
    /\ last.op = "deleted"
    /\ ~last.fresh
    /\ Len(file_info) >= 2
    /\ DeclarationNodes # {}
    /\ edges # <<>>

\* The handler that has just run was given a directory, or a file whose name
\* does not end with ".py"
IgnoredEvent(rec) ==
    /\ rec.op \in {"created", "modified", "deleted"}
    /\ rec.is_directory \/ ~EndsWith(rec.path, <<".py">>)

\* C31: the events for directories and for files whose name does not end
\* with ".py" leave the index, the graph and the vector store unchanged.
C31_IgnoredEventsChangeNothing ==
    [][(events' # events /\ IgnoredEvent(last'))
          => /\ file_info' = file_info
             /\ nodes' = nodes
             /\ edges' = edges
             /\ vec' = vec]_vars

\* A deleted event for a directory at an indexed path has been handled, and
\* the file is still indexed
C31_Witness ==
    /\ last.op = "deleted"
    /\ last.is_directory
    /\ HasKey(file_info, last.path)
    /\ last.path \in nodes
    /\ EntriesOf(vec, last.path) # {}

\* C32: the query operations dependents, dependencies, callers, impact,
\* file_info, stats, code_map and process_query (with it
\* get_database_interactions) leave the index, the nodes and edges of the
\* graph and the watcher unchanged, for indexed and for unknown paths.
C32_QueriesChangeNothing ==
    [][seen' # seen
          => /\ file_info' = file_info
             /\ nodes' = nodes
             /\ edges' = edges
             /\ observer' = observer
             /\ orphans' = orphans]_vars

\* An impact analysis has been answered for a path that was never indexed,
\* over a graph with edges
C32_Witness ==
    /\ seen.kind = "impact"
    /\ seen.path = UnknownPath
    /\ ~HasKey(file_info, UnknownPath)
    /\ UnknownPath \notin nodes
    /\ edges # <<>>

\* C33: in the result of an impact analysis no file is in both the direct and
\* the transitive list, so total_impact_count is the number of distinct
\* files affected.  Stated for the graphs in which no file imports itself.
C33_DirectAndTransitiveDisjoint ==
    (seen.kind = "impact" /\ \A i \in 1..Len(edges) : edges[i].source # edges[i].target) =>
        LET direct == SourcesIn(seen.answer.direct_dependents)
            transitive == SourcesIn(seen.answer.transitive_dependents)
        IN  /\ direct \cap transitive = {}
            /\ seen.answer.total_impact_count = Cardinality(direct \cup transitive)

\* C34: the traversal of an impact analysis ends on every import graph,
\* cycles and self-imports included: visit_dependents is called once per
\* direct dependent and, beyond that, only for a file newly added to the
\* visited set, so the calls number at most the direct dependents plus the
\* other files of the graph.
C34_TraversalCallsAreBounded ==
    seen.kind = "impact" =>
        LET acc == Traverse(Engine, seen.path)
            direct == GetDependents(Engine, seen.path)
        IN  /\ acc.calls = Len(direct) + Len(acc.transitive)
            /\ Len(acc.transitive) <= Cardinality(nodes) - 1
            /\ acc.calls <= Len(direct) + Cardinality(nodes) - 1
            /\ acc.transitive = seen.answer.transitive_dependents

\* The analysis has been answered over a graph in which every file imports
\* every file, itself included
C34_Witness ==
    /\ seen.kind = "impact"
    /\ \A u, v \in Range(ProjectPaths) : HasEdge(edges, u, v)
    /\ Len(seen.answer.transitive_dependents) = 2

HasImportEdge(u, v) ==
    \E i \in 1..Len(edges) :
        edges[i].source = u /\ edges[i].target = v /\ edges[i].type = "imports"

\* C35: every entry of the transitive list of an impact analysis records as
\* via a file that the entry's source imports directly, and that via file
\* is itself a direct or a transitive dependent of the analysed file.
C35_ViaIsImportedDependent ==
    seen.kind = "impact" =>
        LET direct == SourcesIn(seen.answer.direct_dependents)
            transitive == seen.answer.transitive_dependents
        IN  \A i \in 1..Len(transitive) :
                /\ HasImportEdge(transitive[i].source, transitive[i].via)
                /\ transitive[i].via \in direct \cup SourcesIn(transitive)

\* A chain c.py <- b.py <- a.py: the entry for a.py is reached through b.py
C35_Witness ==
    /\ seen.kind = "impact"
    /\ seen.path = PathC
    /\ seen.answer.direct_dependents = <<[type |-> "imported_by", source |-> PathB]>>
    /\ seen.answer.transitive_dependents
          = <<[type |-> "transitively_imported_by", source |-> PathA, via |-> PathB]>>

\* The identity of a function named n in some file
FunctionNamed(id, n) == Contains(id, ":function:") /\ EndsWithColonName(id, n)

C37_OneEdgePerPairAndKindShape ==
    /\ \A i, j \in 1..Len(edges) :
          (edges[i].source = edges[j].source /\ edges[i].target = edges[j].target)
              => i = j
    /\ \A i \in 1..Len(edges) :
          /\ edges[i].type \in {"imports", "calls"}
          /\ edges[i].source \in FileNodes
          /\ edges[i].type = "imports" => edges[i].target \in FileNodes
          /\ edges[i].type = "calls" => edges[i].target \in DeclarationNodes

\* One file has an imports edge to a file and a calls edge to a class of
\* that file
C37_Witness ==
    \E i, j \in 1..Len(edges) :
        /\ edges[i].source = edges[j].source
        /\ edges[i].type = "imports"
        /\ edges[j].type = "calls"
        /\ OwnedBy(edges[j].target, edges[i].target)

=============================================================================
